---- MODULE Spec2Model ----
(***************************************************************************)
(* A model of the star-observer astronomical core                          *)
(* (src/src/astronomy/AstronomicalCalculator.js), of the renderer's        *)
(* sidereal time, sky orientation, planets and orbit trails and of the     *)
(* application's start (src/src/renderer/StarMapRenderer.js), of the       *)
(* TimeController (src/unnamed/part_001) and of the UIController           *)
(* (src/src/controllers/UIController.js).                                  *)
(*                                                                         *)
(* Numbers.  JavaScript numbers are IEEE doubles; here they are fixed-point *)
(* integers, each quantity with its own unit:                              *)
(*   - radians and dimensionless values (sines, eccentricities): 1e-8      *)
(*   - degrees, hours, astronomical units, magnitudes:            1e-6     *)
(*   - table angles and daily motions as written in the source:   1e-4     *)
(*   - instants: half-days since the Unix epoch (J2000.0 is at noon)       *)
(* A product of two fixed-point numbers is computed in two halves so that  *)
(* no intermediate exceeds 32 bits.  Math.sin, Math.cos, Math.atan2,       *)
(* Math.asin, Math.sqrt and Math.log10 are computed to about 1e-8 by       *)
(* series, CORDIC and Newton iteration.                                    *)
(***************************************************************************)
EXTENDS Integers, Sequences, FiniteSets, TLC

----------------------------------------------------------------------------
(* Fixed-point arithmetic *)

K8 == 10 ^ 4
One8 == K8 * K8
K6 == 10 ^ 3
One6 == K6 * K6

Abs(a) == IF a >= 0 THEN a ELSE -a

Sgn(a) == IF a > 0 THEN 1 ELSE IF a < 0 THEN -1 ELSE 0

\* a * b / k^2 for naturals a, b < 10^9, rounded in the last place
MulNat(a, b, k) ==
    LET ah == a \div k
        al == a % k
        bh == b \div k
        bl == b % k
        t  == ah * bl + al * bh + (al * bl) \div k
    IN  ah * bh + (t + k \div 2) \div k

Mul(a, b, k) == Sgn(a) * Sgn(b) * MulNat(Abs(a), Abs(b), k)

\* product of a value in any unit with a value in 1e-8 units
Mul8(a, b) == Mul(a, b, K8)

\* product of two values in 1e-6 units
Mul6(a, b) == Mul(a, b, K6)

RECURSIVE DivDigits(_, _, _, _)
DivDigits(q, r, b, digits) ==
    IF digits = 0 THEN q
    ELSE DivDigits(q * 10 + (r * 10) \div b, (r * 10) % b, b, digits - 1)

RECURSIVE DivNat(_, _, _)
\* a * 10^digits / b for naturals, b > 0, by long division
DivNat(a, b, digits) ==
    IF b >= 2 * One8 THEN DivNat(a \div 10, b \div 10, digits)
    ELSE DivDigits(a \div b, a % b, b, digits)

\* a / b with the quotient in 1e-8 units (a and b in the same unit)
Div8(a, b) == Sgn(a) * Sgn(b) * DivNat(Abs(a), Abs(b), 8)

\* JavaScript's % on numbers: the result has the sign of the dividend
JsRem(a, b) == IF a >= 0 THEN a % b ELSE -((-a) % b)

\* 360 degrees and 24 hours in 1e-6 units
FullCircle == 360 * One6
FullDay == 24 * One6

\* x % m for the number x = W * 10^6 + F (0 <= F < 10^6) too wide for one
\* integer, m a whole number of units; the sign is the sign of x
JsRemWide(W, F, m) ==
    IF W >= 0 THEN (W % m) * One6 + F
    ELSE IF F = 0 THEN -(((-W) % m) * One6)
    ELSE -(((-W - 1) % m) * One6 + (One6 - F))

----------------------------------------------------------------------------
(* Math.sin, Math.cos *)

Pi8 == 314159265

RECURSIVE Horner(_, _, _, _)
\* 1 - x2/d1 * (1 - x2/d2 * (...)), the divisors taken from last to first
Horner(x2, ds, i, t) ==
    IF i > Len(ds) THEN t
    ELSE Horner(x2, ds, i + 1, One8 - Mul8(x2, t) \div ds[i])

SinSeries(x) == Mul8(x, Horner(Mul8(x, x), <<210, 156, 110, 72, 42, 20, 6>>, 1, One8))

CosSeries(x) == Horner(Mul8(x, x), <<182, 132, 90, 56, 30, 12, 2>>, 1, One8)

\* the angle brought into (-pi, pi]
ReduceAngle(x) ==
    LET r == x % (2 * Pi8)
    IN  IF r > Pi8 THEN r - 2 * Pi8 ELSE r

MathSin(x) ==
    LET r == ReduceAngle(x)
    IN  IF r > Pi8 \div 2 THEN SinSeries(Pi8 - r)
        ELSE IF r < -(Pi8 \div 2) THEN SinSeries(-Pi8 - r)
        ELSE SinSeries(r)

MathCos(x) ==
    LET r == ReduceAngle(x)
    IN  IF r > Pi8 \div 2 THEN -CosSeries(Pi8 - r)
        ELSE IF r < -(Pi8 \div 2) THEN -CosSeries(-Pi8 - r)
        ELSE CosSeries(r)

\* degrees (1e-6) to radians (1e-8): degrees * pi / 180
degToRad(degrees) == degrees + Mul8(degrees, 74532925)

\* radians (1e-8) to degrees (1e-6): radians * 180 / pi
radToDeg(radians) == radians \div 2 + (Mul8(radians, 72957795) + 5) \div 10

----------------------------------------------------------------------------
(* Math.atan2, Math.sqrt, Math.asin, Math.log10 *)

CordicSteps == 27

\* atan(2^-i) in 1e-8 radians, i = 0 .. CordicSteps
AtanTable ==
    <<78539816, 46364761, 24497866, 12435499, 6241881, 3123983, 1562373,
      781234, 390623, 195312, 97656, 48828, 24414, 12207, 6104, 3052, 1526,
      763, 381, 191, 95, 48, 24, 12, 6, 3, 1, 1>>

Max2(a, b) == IF a >= b THEN a ELSE b

RECURSIVE CordicNorm(_, _)
\* the vector scaled by a power of two so that its larger side is in [2^27, 2^28)
CordicNorm(x, y) ==
    LET m == Max2(Abs(x), Abs(y))
    IN  IF m >= 2 ^ 28 THEN CordicNorm(x \div 2, y \div 2)
        ELSE IF m < 2 ^ 27 THEN CordicNorm(x * 2, y * 2)
        ELSE <<x, y>>

RECURSIVE CordicRotate(_, _, _, _)
\* the angle by which <<x, y>> (x >= 0) is turned onto the x axis
CordicRotate(x, y, i, a) ==
    IF i > CordicSteps THEN a
    ELSE LET p == 2 ^ i
         IN  IF y > 0
             THEN CordicRotate(x + y \div p, y - x \div p, i + 1, a + AtanTable[i + 1])
             ELSE IF y < 0
             THEN CordicRotate(x - y \div p, y + x \div p, i + 1, a - AtanTable[i + 1])
             ELSE a

CordicAngle(x, y) ==
    LET v == CordicNorm(x, y)
    IN  CordicRotate(v[1], v[2], 0, 0)

\* Math.atan2(y, x) in 1e-8 radians: a value in [-pi, pi]
MathAtan2(y, x) ==
    IF x = 0 /\ y = 0 THEN 0
    ELSE IF x >= 0 THEN CordicAngle(x, y)
    ELSE IF y >= 0 THEN Pi8 - CordicAngle(-x, y)
    ELSE -Pi8 - CordicAngle(-x, y)

RECURSIVE ISqrtIter(_, _)
ISqrtIter(n, x) ==
    LET y == (x + n \div x) \div 2
    IN  IF y >= x THEN x ELSE ISqrtIter(n, y)

\* the integer square root of a natural
ISqrt(n) == IF n < 2 THEN n ELSE ISqrtIter(n, n)

RECURSIVE SqrtNewton(_, _, _, _)
SqrtNewton(a, r, digits, steps) ==
    IF steps = 0 THEN r
    ELSE SqrtNewton(a, (r + DivNat(a, r, digits)) \div 2, digits, steps - 1)

\* Math.sqrt of a value in 1e-8 units
MathSqrt8(a) == IF a <= 0 THEN 0 ELSE SqrtNewton(a, ISqrt(a) * K8, 8, 3)

\* Math.sqrt of a value in 1e-6 units
MathSqrt6(a) == IF a <= 0 THEN 0 ELSE SqrtNewton(a, ISqrt(a) * K6, 6, 3)

\* Math.asin(v) for |v| <= 1, in 1e-8 radians
MathAsin(v) == MathAtan2(v, MathSqrt8(One8 - Mul8(v, v)))

RECURSIVE Log2Frac(_, _, _)
\* the fractional part of log2(m), m in [1, 2), by repeated squaring
Log2Frac(m, i, acc) ==
    IF i > CordicSteps THEN acc
    ELSE LET sq == Mul8(m, m)
         IN  IF sq >= 2 * One8
             THEN Log2Frac(sq \div 2, i + 1, acc + One8 \div (2 ^ i))
             ELSE Log2Frac(sq, i + 1, acc)

RECURSIVE Log2(_, _)
\* log2(m) for m >= 1 in 1e-8 units
Log2(m, c) ==
    IF m >= 2 * One8 THEN Log2(m \div 2, c + 1)
    ELSE c * One8 + Log2Frac(m, 1, 0)

RECURSIVE Log10Pos(_, _)
\* log10(x) for x > 0, x and the result in 1e-6 units
Log10Pos(x, n) ==
    IF x >= 10 * One6 THEN Log10Pos(x \div 10, n + 1)
    ELSE IF x < One6 THEN Log10Pos(x * 10, n - 1)
    ELSE n * One6 + (Mul8(Log2(x * 100, 0), 30103000) + 50) \div 100

\* Math.log10: -Infinity at 0 and NaN below 0 are values, not errors
MathLog10(x) ==
    IF x > 0 THEN [kind |-> "number", val |-> Log10Pos(x, 0)]
    ELSE IF x = 0 THEN [kind |-> "-Infinity", val |-> 0]
    ELSE [kind |-> "NaN", val |-> 0]

----------------------------------------------------------------------------
(* AstronomicalCalculator: the tables *)

\* The names are the source's Chinese names in pinyin.  Units: AU 1e-6,
\* eccentricity 1e-8, angles in degrees 1e-6, meanAnomalyAtEpoch in degrees
\* 1e-4 and meanDailyMotion in degrees per day 1e-4.
planetDataInit ==
    [mercury |-> [name |-> "Shuixing", semiMajorAxis |-> 387000,
                  eccentricity |-> 20600000, inclination |-> 7000000,
                  longitudeOfAscendingNode |-> 48300000,
                  argumentOfPeriapsis |-> 77500000,
                  meanAnomalyAtEpoch |-> 1748000, meanDailyMotion |-> 40923],
     venus   |-> [name |-> "Jinxing", semiMajorAxis |-> 723000,
                  eccentricity |-> 700000, inclination |-> 3400000,
                  longitudeOfAscendingNode |-> 76700000,
                  argumentOfPeriapsis |-> 131600000,
                  meanAnomalyAtEpoch |-> 501000, meanDailyMotion |-> 16022],
     mars    |-> [name |-> "Huoxing", semiMajorAxis |-> 1524000,
                  eccentricity |-> 9300000, inclination |-> 1900000,
                  longitudeOfAscendingNode |-> 49600000,
                  argumentOfPeriapsis |-> 336100000,
                  meanAnomalyAtEpoch |-> 194000, meanDailyMotion |-> 5240],
     jupiter |-> [name |-> "Muxing", semiMajorAxis |-> 5203000,
                  eccentricity |-> 4900000, inclination |-> 1300000,
                  longitudeOfAscendingNode |-> 100500000,
                  argumentOfPeriapsis |-> 14800000,
                  meanAnomalyAtEpoch |-> 200000, meanDailyMotion |-> 831],
     saturn  |-> [name |-> "Tuxing", semiMajorAxis |-> 9537000,
                  eccentricity |-> 5700000, inclination |-> 2500000,
                  longitudeOfAscendingNode |-> 113700000,
                  argumentOfPeriapsis |-> 93000000,
                  meanAnomalyAtEpoch |-> 3170000, meanDailyMotion |-> 334]]

\* the keys without the last one
planetKeysButLast == <<"mercury", "venus", "mars", "jupiter">>

\* Object.entries(this.planetData): the keys in insertion order
planetKeys == <<"mercury", "venus", "mars", "jupiter", "saturn">>

\* new Date('2000-01-01T12:00:00Z').getTime() = 946728000000 ms, in half-days
epochDate == 21915

\* a table entry that is null
Null == [null |-> TRUE]

----------------------------------------------------------------------------
(* AstronomicalCalculator: the pure methods *)

\* the mean anomaly counted from midnight of 2000-01-01 rather than from noon
MeanAnomalyFromMidnight(M0, n, date) ==
    JsRem(2 * M0 + n * (date - (epochDate - 1)), 2 * 360 * 10 ^ 4) * 50

\* (M0 + n * daysSinceEpoch) % 360 in degrees 1e-6; M0 and n in 1e-4 units,
\* daysSinceEpoch = (date - epochDate) / 2
MeanAnomalyAt(M0, n, date) ==
    JsRem(2 * M0 + n * (date - epochDate), 2 * 360 * 10 ^ 4) * 50

\* the tolerance parameter's default, 1e-6 radians
DefaultTolerance == 100

\* the loop test without Math.abs
keplerContinuesSigned(deltaE, tolerance) == deltaE > tolerance

\* while (Math.abs(deltaE) > tolerance)
keplerContinues(deltaE, tolerance) == Abs(deltaE) > tolerance

\* the loop body: <<E, deltaE>> after one Newton-Raphson step
keplerBody(E, meanAnomaly, eccentricity) ==
    LET f  == E - Mul8(eccentricity, MathSin(E)) - degToRad(meanAnomaly)
        fp == One8 - Mul8(eccentricity, MathCos(E))
        deltaE == Div8(f, fp)
    IN  <<E - deltaE, deltaE>>

RECURSIVE keplerLoop(_, _, _, _, _)
keplerLoop(E, deltaE, meanAnomaly, eccentricity, tolerance) ==
    IF keplerContinues(deltaE, tolerance)
    THEN LET s == keplerBody(E, meanAnomaly, eccentricity)
         IN  keplerLoop(s[1], s[2], meanAnomaly, eccentricity, tolerance)
    ELSE radToDeg(E)

\* the eccentric anomaly in degrees 1e-6
solveKeplerEquation(meanAnomaly, eccentricity) ==
    keplerLoop(degToRad(meanAnomaly), One8, meanAnomaly, eccentricity, DefaultTolerance)

calculateTrueAnomaly(eccentricAnomaly, eccentricity) ==
    LET E_rad == degToRad(eccentricAnomaly)
        nu == 2 * MathAtan2(
                  Mul8(MathSqrt8(One8 + eccentricity), MathSin(E_rad \div 2)),
                  Mul8(MathSqrt8(One8 - eccentricity), MathCos(E_rad \div 2)))
    IN  radToDeg(nu)

orbitToEcliptic(x, y, z, inclination, argumentOfPeriapsis, longitudeOfAscendingNode) ==
    LET i == degToRad(inclination)
        w == degToRad(argumentOfPeriapsis)
        Omega == degToRad(longitudeOfAscendingNode)
        cosW == MathCos(w)
        sinW == MathSin(w)
        cosI == MathCos(i)
        sinI == MathSin(i)
        cosOmega == MathCos(Omega)
        sinOmega == MathSin(Omega)
        x_ecl == Mul8(x, Mul8(cosW, cosOmega) - Mul8(Mul8(sinW, sinOmega), cosI))
                 + Mul8(y, -Mul8(sinW, cosOmega) - Mul8(Mul8(cosW, sinOmega), cosI))
        y_ecl == Mul8(x, Mul8(cosW, sinOmega) + Mul8(Mul8(sinW, cosOmega), cosI))
                 + Mul8(y, -Mul8(sinW, sinOmega) + Mul8(Mul8(cosW, cosOmega), cosI))
        z_ecl == Mul8(x, Mul8(sinW, sinI)) + Mul8(y, Mul8(cosW, sinI))
    IN  [x |-> x_ecl, y |-> y_ecl, z |-> z_ecl]

\* x, y from earthTrueAnomaly
earthPositionFrom(earthDistance, earthTrueAnomaly) ==
    [x |-> Mul8(earthDistance, MathCos(degToRad(earthTrueAnomaly))),
     y |-> Mul8(earthDistance, MathSin(degToRad(earthTrueAnomaly))),
     z |-> 0]

\* (100.0 + 0.9856 * daysSinceEpoch) % 360
earthMeanAnomalyAt(date) == MeanAnomalyAt(1000000, 9856, date)

\* earthDistance = 1.0, earthEccentricity = 0.017
calculateEarthPosition(date) ==
    earthPositionFrom(One6,
        calculateTrueAnomaly(solveKeplerEquation(earthMeanAnomalyAt(date), 1700000),
                             1700000))

\* a / d rounded toward zero
Quot(a, d) == Sgn(a) * (Abs(a) \div d)

\* the length of a vector in 1e-6 units
Norm6(x, y, z) == MathSqrt6(Mul6(x, x) + Mul6(y, y) + Mul6(z, z))

\* ra in hours 1e-6, dec in degrees 1e-6
eclipticToEquatorial(coords) ==
    LET obliquity == degToRad(23436700)
        x == coords.x
        y == Mul8(coords.y, MathCos(obliquity)) - Mul8(coords.z, MathSin(obliquity))
        z == Mul8(coords.y, MathSin(obliquity)) + Mul8(coords.z, MathCos(obliquity))
        ra == MathAtan2(y, x)
        dec == MathAsin(Div8(z, Norm6(x, y, z)))
    IN  [ra |-> Quot(radToDeg(ra), 15), dec |-> radToDeg(dec)]

\* the table with the first box reaching back past RA = 0, from 23 h to 2 h
constellationBoundsWrapping ==
    <<[name |-> "Shuangyu",  raStart |-> 23, raEnd |-> 2,  decMin |-> -5,  decMax |-> 25],
      [name |-> "Baiyang",   raStart |-> 2,  raEnd |-> 4,  decMin |-> 0,   decMax |-> 30],
      [name |-> "Jinniu",    raStart |-> 4,  raEnd |-> 7,  decMin |-> 5,   decMax |-> 35],
      [name |-> "Shuangzi",  raStart |-> 7,  raEnd |-> 9,  decMin |-> 10,  decMax |-> 35],
      [name |-> "Juxie",     raStart |-> 9,  raEnd |-> 10, decMin |-> 5,   decMax |-> 35],
      [name |-> "Shizi",     raStart |-> 10, raEnd |-> 12, decMin |-> 0,   decMax |-> 30],
      [name |-> "Chunv",     raStart |-> 12, raEnd |-> 15, decMin |-> -15, decMax |-> 15],
      [name |-> "Tiancheng", raStart |-> 15, raEnd |-> 16, decMin |-> -25, decMax |-> 0],
      [name |-> "Tianxie",   raStart |-> 16, raEnd |-> 18, decMin |-> -45, decMax |-> -5],
      [name |-> "Sheshou",   raStart |-> 18, raEnd |-> 20, decMin |-> -45, decMax |-> -15],
      [name |-> "Mojie",     raStart |-> 20, raEnd |-> 22, decMin |-> -25, decMax |-> -5],
      [name |-> "Shuiping",  raStart |-> 22, raEnd |-> 24, decMin |-> -25, decMax |-> 5]>>

\* the bounds in whole hours (ra) and whole degrees (dec), in table order
constellationBounds ==
    <<[name |-> "Shuangyu",  raStart |-> 0,  raEnd |-> 2,  decMin |-> -5,  decMax |-> 25],
      [name |-> "Baiyang",   raStart |-> 2,  raEnd |-> 4,  decMin |-> 0,   decMax |-> 30],
      [name |-> "Jinniu",    raStart |-> 4,  raEnd |-> 7,  decMin |-> 5,   decMax |-> 35],
      [name |-> "Shuangzi",  raStart |-> 7,  raEnd |-> 9,  decMin |-> 10,  decMax |-> 35],
      [name |-> "Juxie",     raStart |-> 9,  raEnd |-> 10, decMin |-> 5,   decMax |-> 35],
      [name |-> "Shizi",     raStart |-> 10, raEnd |-> 12, decMin |-> 0,   decMax |-> 30],
      [name |-> "Chunv",     raStart |-> 12, raEnd |-> 15, decMin |-> -15, decMax |-> 15],
      [name |-> "Tiancheng", raStart |-> 15, raEnd |-> 16, decMin |-> -25, decMax |-> 0],
      [name |-> "Tianxie",   raStart |-> 16, raEnd |-> 18, decMin |-> -45, decMax |-> -5],
      [name |-> "Sheshou",   raStart |-> 18, raEnd |-> 20, decMin |-> -45, decMax |-> -15],
      [name |-> "Mojie",     raStart |-> 20, raEnd |-> 22, decMin |-> -25, decMax |-> -5],
      [name |-> "Shuiping",  raStart |-> 22, raEnd |-> 24, decMin |-> -25, decMax |-> 5]>>

\* the sentinel the lookup returns when no box matches
unknownConstellation == "Weizhi xingzuo"

\* the test of one box with the upper right-ascension bound exclusive
constellationMatchesHalfOpen(constellation, raHours, decDeg) ==
    /\ raHours >= constellation.raStart * One6
    /\ raHours < constellation.raEnd * One6
    /\ decDeg >= constellation.decMin * One6
    /\ decDeg <= constellation.decMax * One6

\* the test of one box: inRA and the declination comparison
constellationMatches(constellation, raHours, decDeg) ==
    LET inRA == IF constellation.raStart <= constellation.raEnd
                THEN /\ raHours >= constellation.raStart * One6
                     /\ raHours <= constellation.raEnd * One6
                ELSE \/ raHours >= constellation.raStart * One6
                     \/ raHours <= constellation.raEnd * One6
    IN  /\ inRA
        /\ decDeg >= constellation.decMin * One6
        /\ decDeg <= constellation.decMax * One6

RECURSIVE constellationScanLast(_, _, _)
\* the scan that lets a later box overwrite an earlier match
constellationScanLast(i, raHours, decDeg) ==
    LET j == Len(constellationBounds) + 1 - i
    IN  IF i > Len(constellationBounds) THEN unknownConstellation
        ELSE IF constellationMatches(constellationBounds[j], raHours, decDeg)
        THEN constellationBounds[j].name
        ELSE constellationScanLast(i + 1, raHours, decDeg)

RECURSIVE constellationScan(_, _, _)
\* for (const constellation of constellationBounds) from the i-th box on
constellationScan(i, raHours, decDeg) ==
    IF i > Len(constellationBounds) THEN unknownConstellation
    ELSE IF constellationMatches(constellationBounds[i], raHours, decDeg)
    THEN constellationBounds[i].name
    ELSE constellationScan(i + 1, raHours, decDeg)

getConstellationFromCoords(ra, dec) == constellationScan(1, ra, dec)

\* magnitudes 1e-6, keyed by the English body names
baseMagnitudes ==
    [mercury |-> -600000, venus |-> -4400000, mars |-> -2900000,
     jupiter |-> -2900000, saturn |-> -500000]

\* baseMagnitudes[planetData.name] || 0
baseMagnitudeOf(planetData) ==
    IF planetData.name \in DOMAIN baseMagnitudes
    THEN baseMagnitudes[planetData.name]
    ELSE 0

\* 5 * Math.log10(heliocentricDistance * geocentricDistance)
distanceEffect(heliocentricDistance, geocentricDistance) ==
    LET l == MathLog10(Mul6(heliocentricDistance, geocentricDistance))
    IN  [kind |-> l.kind, val |-> 5 * l.val]

\* baseMag + distanceEffect: a number, -Infinity or NaN
calculateApparentMagnitude(planetData, heliocentricDistance, geocentricDistance) ==
    LET baseMag == baseMagnitudeOf(planetData)
        effect == distanceEffect(heliocentricDistance, geocentricDistance)
    IN  IF effect.kind = "number"
        THEN [kind |-> "number", val |-> baseMag + effect.val]
        ELSE effect

\* Each step of calculatePlanetPosition below takes the locals computed so far
\* as parameters.

\* the return statement
positionResult(planetData, orbitInfo, geocentricCoords, equatorialCoords, distance) ==
    [name |-> planetData.name,
     position |-> [x |-> geocentricCoords.x * 50,
                   y |-> geocentricCoords.y * 50,
                   z |-> geocentricCoords.z * 50],
     celestialCoords |-> [ra |-> equatorialCoords.ra,
                          dec |-> equatorialCoords.dec,
                          distance |-> distance],
     constellation |-> getConstellationFromCoords(equatorialCoords.ra, equatorialCoords.dec),
     magnitude |-> calculateApparentMagnitude(planetData,
                                              orbitInfo.heliocentricDistance, distance),
     orbitInfo |-> orbitInfo]

\* equatorialCoords and the geocentric distance
positionFromGeocentric(planetData, orbitInfo, geocentricCoords) ==
    positionResult(planetData, orbitInfo, geocentricCoords,
                   eclipticToEquatorial(geocentricCoords),
                   Norm6(geocentricCoords.x, geocentricCoords.y, geocentricCoords.z))

\* the vectors added instead of subtracted
geocentricCoordsOfSum(eclipticCoords, earthPosition) ==
    [x |-> eclipticCoords.x + earthPosition.x,
     y |-> eclipticCoords.y + earthPosition.y,
     z |-> eclipticCoords.z + earthPosition.z]

\* geocentricCoords = eclipticCoords - earthPosition
geocentricCoordsOf(eclipticCoords, earthPosition) ==
    [x |-> eclipticCoords.x - earthPosition.x,
     y |-> eclipticCoords.y - earthPosition.y,
     z |-> eclipticCoords.z - earthPosition.z]

\* x_orbit, y_orbit and eclipticCoords
eclipticCoordsOf(planetData, orbitInfo) ==
    orbitToEcliptic(
        Mul8(orbitInfo.heliocentricDistance, MathCos(degToRad(orbitInfo.trueAnomaly))),
        Mul8(orbitInfo.heliocentricDistance, MathSin(degToRad(orbitInfo.trueAnomaly))),
        0,
        planetData.inclination,
        planetData.argumentOfPeriapsis,
        planetData.longitudeOfAscendingNode)

\* trueAnomaly and heliocentricDistance
orbitInfoFrom(planetData, meanAnomaly, eccentricAnomaly) ==
    [meanAnomaly |-> meanAnomaly,
     eccentricAnomaly |-> eccentricAnomaly,
     trueAnomaly |-> calculateTrueAnomaly(eccentricAnomaly, planetData.eccentricity),
     heliocentricDistance |->
         Mul8(planetData.semiMajorAxis,
              One8 - Mul8(planetData.eccentricity, MathCos(degToRad(eccentricAnomaly))))]

\* eccentricAnomaly
orbitInfoFromMean(planetData, meanAnomaly) ==
    orbitInfoFrom(planetData, meanAnomaly,
                  solveKeplerEquation(meanAnomaly, planetData.eccentricity))

\* daysSinceEpoch and meanAnomaly
orbitInfoAt(planetData, date) ==
    orbitInfoFromMean(planetData,
                      MeanAnomalyAt(planetData.meanAnomalyAtEpoch,
                                    planetData.meanDailyMotion, date))

positionFromOrbit(planetData, date, orbitInfo) ==
    positionFromGeocentric(planetData, orbitInfo,
                           geocentricCoordsOf(eclipticCoordsOf(planetData, orbitInfo),
                                              calculateEarthPosition(date)))

\* the result record (without the display colour)
calculatePlanetPosition(planetData, date) ==
    positionFromOrbit(planetData, date, orbitInfoAt(planetData, date))

\* a JavaScript number that is finite, and NaN
Number(v) == [kind |-> "number", val |-> v]
NaN == [kind |-> "NaN", val |-> 0]

\* calculatePlanetPosition when date.getTime() is NaN: daysSinceEpoch and the
\* mean anomaly are NaN, the solver's loop ends on its second test (NaN >
\* tolerance is false) and returns NaN, every product, sum, sine, square root
\* and logarithm of NaN is NaN, and every comparison of the box lookup is false
calculatePlanetPositionNaN(planetData) ==
    [name |-> planetData.name,
     position |-> [x |-> NaN, y |-> NaN, z |-> NaN],
     celestialCoords |-> [ra |-> NaN, dec |-> NaN, distance |-> NaN],
     constellation |-> unknownConstellation,
     magnitude |-> NaN,
     orbitInfo |-> [meanAnomaly |-> NaN, eccentricAnomaly |-> NaN,
                    trueAnomaly |-> NaN, heliocentricDistance |-> NaN]]

\* eclipticToEquatorial for every vector: at x = y = z = 0 Math.atan2(0, 0) is
\* 0 and 0 / Math.sqrt(0) is NaN, so dec is NaN
eclipticToEquatorialAt(coords) ==
    IF coords.x = 0 /\ coords.y = 0 /\ coords.z = 0
    THEN [ra |-> Number(0), dec |-> NaN]
    ELSE [ra |-> Number(eclipticToEquatorial(coords).ra),
          dec |-> Number(eclipticToEquatorial(coords).dec)]

----------------------------------------------------------------------------
(* StarMapRenderer and ConstellationData: sidereal time and the sky sphere *)

\* 2440587.5, the Julian date of the Unix epoch, in half-days
UnixEpochJulianDate == 4881175

\* 2451545.0, the Julian date of J2000.0, in half-days
J2000JulianDate == 4903090

\* the Julian date with the Unix epoch put at 2440587.0
toJulianDateWholeDays(date) == date + UnixEpochJulianDate - 1

\* date.getTime() / 86400000 + 2440587.5, in half-days
toJulianDate(date) == date + UnixEpochJulianDate

\* T = (jd - 2451545.0) / 36525.0 in 1e-8 centuries
julianCenturies(jd) ==
    Sgn(jd - J2000JulianDate) * DivNat(Abs(jd - J2000JulianDate), 2 * 36525, 8)

\* 0.000387933 * T * T - (T * T * T) / 38710000.0 in degrees 1e-6
gmstHigherTerms(T) ==
    (Mul8(Mul8(T, T), 387933) + 500) \div 1000
        - Quot(Quot(Mul8(Mul8(T, T), T), 38710000), 100)

\* 360.98564736629 * (jd - 2451545.0) for h >= 0 half-days since J2000.0, as
\* <<whole degrees, degrees 1e-6>>: 180492.823683 degrees for each 1000
\* half-days and 180.492823683 degrees for each further one
siderealTurn(h) ==
    <<180492 * (h \div 1000) + 180 * (h % 1000),
      823683 * (h \div 1000) + 492823 * (h % 1000) + (683 * (h % 1000) + 500) \div 1000>>

\* the truncated normalisation x % 360
wrap360Truncated(x) == JsRem(x, FullCircle)

\* ((x % 360) + 360) % 360
wrap360(x) == JsRem(JsRem(x, FullCircle) + FullCircle, FullCircle)

\* GMST % 360 of the polynomial, from its whole degrees and its 1e-6 degrees
gmstRemainder(whole, micro) ==
    JsRemWide(whole + micro \div One6, micro % One6, 360)

\* GMST % 360 for the Julian date jd, in degrees 1e-6 (negative before J2000.0)
gmstModulo(jd) ==
    gmstRemainder(Sgn(jd - J2000JulianDate) * siderealTurn(Abs(jd - J2000JulianDate))[1],
                  280460618
                      + Sgn(jd - J2000JulianDate) * siderealTurn(Abs(jd - J2000JulianDate))[2]
                      + gmstHigherTerms(julianCenturies(jd)))

\* GMST after its normalisation, in degrees 1e-6
gmstAt(jd) == wrap360(gmstModulo(jd))

\* LST after its normalisation, in degrees 1e-6
localSiderealTime(date, longitudeDeg) ==
    wrap360(gmstAt(toJulianDate(date)) + longitudeDeg)

\* the local sidereal time in 1e-8 radians
computeLocalSiderealTimeRadians(date, longitudeDeg) ==
    degToRad(localSiderealTime(date, longitudeDeg))

\* the projection with the declination measured from the x-z plane
raDecToCartesianZUp(ra, dec, distance) ==
    [x |-> Mul8(Mul8(distance, MathCos(degToRad(dec))), MathCos(degToRad(ra))),
     y |-> Mul8(Mul8(distance, MathCos(degToRad(dec))), MathSin(degToRad(ra))),
     z |-> Mul8(distance, MathSin(degToRad(dec)))]

\* ConstellationData.raDecToCartesian: ra and dec in degrees 1e-6
raDecToCartesian(ra, dec, distance) ==
    [x |-> Mul8(Mul8(distance, MathCos(degToRad(dec))), MathCos(degToRad(ra))),
     y |-> Mul8(distance, MathSin(degToRad(dec))),
     z |-> Mul8(Mul8(distance, MathCos(degToRad(dec))), MathSin(degToRad(ra)))]

\* this.observer as the constructor sets it (Guangzhou), degrees 1e-6
defaultObserver == [latitudeDeg |-> 23129100, longitudeDeg |-> 113264400]

\* new THREE.Vector3(v.x, v.y, v.z).normalize(), components in 1e-8 units
normalizeVector(v, length) ==
    [x |-> Div8(v.x, length), y |-> Div8(v.y, length), z |-> Div8(v.z, length)]

\* the zenith with latitude and longitude taken for one another
zenithOfSwapped(obs, date) ==
    [zenithRaDeg |-> radToDeg(computeLocalSiderealTimeRadians(date, obs.latitudeDeg)),
     zenithDecDeg |-> obs.longitudeDeg]

\* lstRad, zenithRaDeg and zenithDecDeg of updateSkyOrientation
zenithOf(obs, date) ==
    [zenithRaDeg |-> radToDeg(computeLocalSiderealTimeRadians(date, obs.longitudeDeg)),
     zenithDecDeg |-> obs.latitudeDeg]

\* zenith and zenithVec of updateSkyOrientation
zenithVecOf(zenith) ==
    normalizeVector(zenith, Norm6(zenith.x, zenith.y, zenith.z))

\* the orientation: the quaternion turns zenithVec onto the world's y axis
skyOrientation(date, zen) ==
    [oriented |-> TRUE, date |-> date,
     zenithRaDeg |-> zen.zenithRaDeg, zenithDecDeg |-> zen.zenithDecDeg,
     zenithVec |-> zenithVecOf(raDecToCartesian(zen.zenithRaDeg, zen.zenithDecDeg, One6))]

----------------------------------------------------------------------------
(* Bounds of the model *)

\* instants are epochDate + k * InstantStep half-days, |k| <= MaxInstantIndex
MaxInstantIndex == 6
InstantStep == 1461

\* mean anomalies given to the solver: k * 15 degrees, |k| <= MaxAnomalyIndex
MaxAnomalyIndex == 24

\* eccentricities given to the solver: k / 10, k <= MaxEccentricityIndex
MaxEccentricityIndex == 8

\* loop iterations of the solver the model follows
MaxIterations == 102

\* lookup points: ra = k / 2 hours, |k| <= MaxRaIndex; dec = 5 k degrees, |k| <= MaxDecIndex
MaxRaIndex == 50
MaxDecIndex == 18

\* distances given to the magnitude law: k / 2 AU, |k| <= MaxDistanceIndex
MaxDistanceIndex == 4

\* longitudes given to the sidereal time: k * 45 degrees, |k| <= MaxLongitudeIndex
MaxLongitudeIndex == 4

\* components of the vectors given to eclipticToEquatorial: k AU, |k| <= MaxCoordIndex
MaxCoordIndex == 1

Instants == {epochDate + k * InstantStep : k \in -MaxInstantIndex..MaxInstantIndex}

MeanAnomalyGrid == {k * 15 * One6 : k \in -MaxAnomalyIndex..MaxAnomalyIndex}

EccentricityGrid ==
    {k * 10 ^ 7 : k \in 0..MaxEccentricityIndex}
        \cup {planetDataInit[k].eccentricity : k \in DOMAIN planetDataInit}
        \cup {1700000, 89000000}

RaGrid == {k * (One6 \div 2) : k \in -MaxRaIndex..MaxRaIndex}

DecGrid == {k * 5 * One6 : k \in -MaxDecIndex..MaxDecIndex}

DistanceGrid == {k * (One6 \div 2) : k \in -MaxDistanceIndex..MaxDistanceIndex}

LongitudeGrid == {k * 45 * One6 : k \in -MaxLongitudeIndex..MaxLongitudeIndex}

CoordGrid == {k * One6 : k \in -MaxCoordIndex..MaxCoordIndex}

\* the instants of the sidereal time: the grid, and the half-days next to J2000.0
SiderealInstants == Instants \cup {epochDate - 1, epochDate + 1}

\* the radii of the sky sphere the renderer projects onto, and the unit sphere
Radii == {One6, 1000 * One6, 1002 * One6}

\* the places of the location menu, and the corners of the globe
Observers ==
    {[latitudeDeg |-> 23129100, longitudeDeg |-> 113264400],
     [latitudeDeg |-> 39904200, longitudeDeg |-> 116407400],
     [latitudeDeg |-> 31230400, longitudeDeg |-> 121473700],
     [latitudeDeg |-> 40712800, longitudeDeg |-> -74006000],
     [latitudeDeg |-> -33868800, longitudeDeg |-> 151209300],
     [latitudeDeg |-> 0, longitudeDeg |-> 0],
     [latitudeDeg |-> 90 * One6, longitudeDeg |-> 180 * One6],
     [latitudeDeg |-> -90 * One6, longitudeDeg |-> -180 * One6]}

----------------------------------------------------------------------------
(* The calculator as a state machine: one call of a public method per run *)

\* updatePlanetPositions is called at most MaxUpdates times, the k-th call
\* with the positions of epochDate + k * FrameStep half-days; the focus is
\* changed and the sky is oriented from the FirstFocusChange-th call on
MaxUpdates == 103
FrameStep == 146
FirstFocusChange == 99

\* fastForward, fastBackward and a late animation frame move the date by
\* StepDays days
StepDays == 36525

\* at most MaxListeners callbacks are registered for the event
MaxListeners == 3

VARIABLES
    planetData,   \* this.planetData
    call,         \* the method called and its arguments
    pc,           \* "called", inside a loop ("kepler", "positions"), "returned" or "thrown"
    ret,          \* the value returned
    E,            \* solveKeplerEquation: E
    deltaE,       \* solveKeplerEquation: deltaE
    iterations,   \* solveKeplerEquation: loop bodies executed so far
    positions,    \* calculatePlanetPositions: positions
    todo,         \* calculatePlanetPositions: the entries still to visit
    observer,     \* StarMapRenderer: this.observer
    skyGroup,     \* StarMapRenderer: the orientation given to this.skyGroup
    previous,     \* the instant of the query before this one (history)
    renderer,     \* StarMapRenderer: focusPlanet, planetObjects, orbitTrails, trail lines
    history,      \* the calls of updatePlanetPositions so far (history)
    timeController, \* TimeController: currentDate, isPlaying, animationId
    frames,       \* the browser's animation frame callbacks: the handles pending, in order
    uiController, \* UIController: isPlaying
    app,          \* SolarSystemStarMap: how far init() is, isInitialized, the map drawn
    trace,        \* the last operation, its argument and the events it emitted (history)
    listeners,    \* this.listeners.get(event) of a controller, for one event
    dispatch      \* the last emit: the callbacks at its start and those invoked (history)

\* the calculator, the sky orientation and the query history
coreVars == <<planetData, call, pc, ret, E, deltaE, iterations, positions, todo,
              observer, skyGroup, previous>>

\* the renderer's planets
rendererVars == <<renderer, history>>

\* the time controller, the user interface and the application around them
timeVars == <<timeController, frames, uiController, app, trace>>

\* the listeners of one event
emitVars == <<listeners, dispatch>>

appVars == <<rendererVars, timeVars, emitVars>>

vars == <<coreVars, appVars>>

NoValue == [kind |-> "none"]

\* the calls of solveKeplerEquation: the default tolerance on the grid, and one
\* call that passes its own (negative) tolerance
KeplerCalls ==
    {[op |-> "solveKeplerEquation", meanAnomaly |-> M, eccentricity |-> e,
      tolerance |-> DefaultTolerance] : M \in MeanAnomalyGrid, e \in EccentricityGrid}
    \cup {[op |-> "solveKeplerEquation",
           meanAnomaly |-> planetDataInit.mercury.meanAnomalyAtEpoch * 100,
           eccentricity |-> planetDataInit.mercury.eccentricity,
           tolerance |-> -DefaultTolerance]}

PositionsCalls == {[op |-> "calculatePlanetPositions", date |-> d] : d \in Instants}

ConstellationCalls ==
    {[op |-> "getConstellationFromCoords", ra |-> r, dec |-> d] : r \in RaGrid, d \in DecGrid}

MagnitudeCalls ==
    {[op |-> "calculateApparentMagnitude", key |-> k,
      heliocentricDistance |-> h, geocentricDistance |-> g] :
        k \in DOMAIN planetDataInit, h \in DistanceGrid, g \in DistanceGrid}

\* a body the table does not have
unknownBody == "pluto"

\* date.getTime() of the Date given: a number of half-days, or NaN
Times == {Number(d) : d \in Instants} \cup {NaN}

\* the calls of calculatePlanetPosition with this.planetData[key] as first argument
PositionCalls ==
    {[op |-> "calculatePlanetPosition", key |-> k, time |-> t] :
        k \in DOMAIN planetDataInit \cup {unknownBody}, t \in Times}

EquatorialCalls ==
    {[op |-> "eclipticToEquatorial", coords |-> [x |-> x, y |-> y, z |-> z]] :
        x \in CoordGrid, y \in CoordGrid, z \in CoordGrid}

SiderealCalls ==
    {[op |-> "computeLocalSiderealTimeRadians", date |-> d, longitudeDeg |-> l] :
        d \in SiderealInstants, l \in LongitudeGrid}

\* ra = 15 * hours, as updatePlanetPositions calls it
ProjectionCalls ==
    {[op |-> "raDecToCartesian", ra |-> 15 * r, dec |-> d, distance |-> R] :
        r \in RaGrid, d \in DecGrid, R \in Radii}

Calls ==
    KeplerCalls \cup PositionsCalls \cup ConstellationCalls \cup MagnitudeCalls
        \cup PositionCalls \cup EquatorialCalls \cup SiderealCalls \cup ProjectionCalls

\* this.celestialSphereRadius of the renderer's constructor, in 1e-6 units
celestialSphereRadius == 1000 * One6

\* the projection of a planet with the right ascension left in hours
planetProjectionHours(celestialCoords) ==
    raDecToCartesian(celestialCoords.ra, celestialCoords.dec,
                     celestialSphereRadius + 2 * One6)

\* raDeg, decDeg and proj of updatePlanetPositions: hours times 15 are degrees
planetProjection(celestialCoords) ==
    raDecToCartesian(celestialCoords.ra * 15, celestialCoords.dec,
                     celestialSphereRadius + 2 * One6)

\* the planets updatePlanetPositions does not skip
focusAdmits(focusPlanet, key) == focusPlanet = "all" \/ focusPlanet = key

\* the length a trail is cut back to
maxTrailLength == 100

\* a trail that makes room by dropping the point before the newest
pushTrailPointDropLast(trail, point) ==
    IF Len(trail) + 1 > maxTrailLength
    THEN Append(SubSeq(trail, 1, Len(trail) - 1), point)
    ELSE Append(trail, point)

\* trail.push(point); if (trail.length > 100) trail.shift();
pushTrailPoint(trail, point) ==
    IF Len(Append(trail, point)) > maxTrailLength
    THEN Tail(Append(trail, point))
    ELSE Append(trail, point)

\* this.orbitTrails.get(planetKey) after the trail was created if missing
trailOf(orbitTrails, key) ==
    IF key \in DOMAIN orbitTrails THEN orbitTrails[key] ELSE <<>>

\* the renderer's fields after its constructor; trailLines counts the lines
\* added to orbitTrailsGroup
rendererInit ==
    [focusPlanet |-> "all", showOrbitTrails |-> TRUE,
     planetObjects |-> <<>>, orbitTrails |-> <<>>, trailLines |-> 0]

\* no call of updatePlanetPositions yet
historyInit ==
    [updates |-> 0, planetPositions |-> <<>>,
     inserted |-> [k \in DOMAIN planetDataInit |-> <<>>]]

----------------------------------------------------------------------------
(* TimeController, UIController and SolarSystemStarMap.  A Date is its time
   value: Number(h) with h half-days after 1970-01-01T00:00Z, or NaN for an
   invalid Date.  The browser's time zone is taken as UTC. *)

\* days from 1970-01-01 to the civil date y-m-d (new Date(y, m - 1, d))
daysFromCivil(y, m, d) ==
    ((y - (IF m <= 2 THEN 1 ELSE 0)) \div 400) * 146097
      + ((y - (IF m <= 2 THEN 1 ELSE 0)) % 400) * 365
      + ((y - (IF m <= 2 THEN 1 ELSE 0)) % 400) \div 4
      - ((y - (IF m <= 2 THEN 1 ELSE 0)) % 400) \div 100
      + (153 * (m + (IF m > 2 THEN -3 ELSE 9)) + 2) \div 5 + d - 1
      - 719468

\* the year of the era's day doe (days after 0000-03-01 within 400 years)
yearOfEra(doe) ==
    (doe - doe \div 1460 + doe \div 36524 - doe \div 146096) \div 365

\* the civil year counted from March, and the day of that year
marchYear(z) ==
    yearOfEra((z + 719468) % 146097) + ((z + 719468) \div 146097) * 400

marchDay(z) ==
    ((z + 719468) % 146097)
      - (365 * yearOfEra((z + 719468) % 146097)
           + yearOfEra((z + 719468) % 146097) \div 4
           - yearOfEra((z + 719468) % 146097) \div 100)

\* date.getFullYear() of a valid date: January and February belong to the
\* next civil year
getFullYear(date) ==
    marchYear(date.val \div 2)
      + (IF (5 * marchDay(date.val \div 2) + 2) \div 153 >= 10 THEN 1 ELSE 0)

\* new Date(year, month - 1, day)
dateOf(year, month, day) == Number(2 * daysFromCivil(year, month, day))

\* new Date('1900-01-01'), new Date('2100-12-31') and new Date('2024-01-01')
minDate == dateOf(1900, 1, 1)
maxDate == dateOf(2100, 12, 31)
initialDate == dateOf(2024, 1, 1)

\* a < b and a > b of two Dates: false when one of them is invalid
dateLess(a, b) == a.kind = "number" /\ b.kind = "number" /\ a.val < b.val
dateAtMost(a, b) == a.kind = "number" /\ b.kind = "number" /\ a.val <= b.val

\* the date moved by a number of half-days
addHalfDays(date, halfDays) ==
    IF date.kind = "number" THEN Number(date.val + halfDays) ELSE NaN

\* the fields of a TimeController after its constructor, at the time now
timeControllerInit(now) ==
    [currentDate |-> now, isPlaying |-> FALSE, animationId |-> Null]

uiControllerInit == [isPlaying |-> FALSE]

\* a SolarSystemStarMap after its constructor: no star map has been drawn
appInit == [phase |-> "constructed", isInitialized |-> FALSE, starMapDate |-> NoValue]

traceInit ==
    [op |-> "none", date |-> NoValue, before |-> NoValue, playing |-> FALSE,
     events |-> <<>>]

\* effectiveDate of updateStarMap: the date at 00:00
effectiveDate(date) ==
    IF date.kind = "number" THEN Number((date.val \div 2) * 2) ELSE NaN

\* updateStarMap(date): nothing before init() has finished; then the planets
\* of the date are calculated, drawn and listed
updateStarMap(w, date) ==
    IF ~w.app.isInitialized
    THEN w
    ELSE [w EXCEPT !.app.starMapDate = effectiveDate(date)]

\* TimeController.emit: the event is recorded and the application's listener
\* of dateChange, registered by init(), runs
emitTime(w, event, data) ==
    IF event = "dateChange" /\ w.app.phase # "constructed"
    THEN updateStarMap([w EXCEPT !.events = Append(@, event)], data)
    ELSE [w EXCEPT !.events = Append(@, event)]

\* TimeController.setDate
setDate(w, date) ==
    IF dateLess(date, minDate) \/ dateLess(maxDate, date)
    THEN w
    ELSE emitTime([w EXCEPT !.timeController.currentDate = date], "dateChange", date)

\* the sequence without its elements equal to h
withoutHandle(seq, h) == SelectSeq(seq, LAMBDA x : x # h)

\* the elements of a sequence
Range(seq) == {seq[i] : i \in DOMAIN seq}

\* TimeController.stopAnimation
stopAnimation(w) ==
    IF w.timeController.animationId # Null
    THEN [w EXCEPT !.frames = withoutHandle(@, w.timeController.animationId.val),
                   !.timeController.animationId = Null]
    ELSE w

\* the handle requestAnimationFrame returns: one that no pending callback, no
\* callback of the running frame and no handle still stored has
newHandle(w) ==
    CHOOSE h \in 1..(Len(w.frames) + Cardinality(w.running) + 2) :
        /\ h \notin Range(w.frames) \cup w.running
        /\ w.timeController.animationId # Number(h)
        /\ \A g \in 1..(h - 1) :
              \/ g \in Range(w.frames) \cup w.running
              \/ w.timeController.animationId = Number(g)

\* this.animationId = requestAnimationFrame(animate)
requestAnimationFrame(w) ==
    [w EXCEPT !.frames = Append(@, newHandle(w)),
              !.timeController.animationId = Number(newHandle(w))]

\* TimeController.pause
pause(w) ==
    IF ~w.timeController.isPlaying
    THEN w
    ELSE emitTime(stopAnimation([w EXCEPT !.timeController.isPlaying = FALSE]),
                  "playStateChange", FALSE)

\* TimeController.play; startAnimation requests the first frame
play(w) ==
    IF w.timeController.isPlaying
    THEN w
    ELSE emitTime(requestAnimationFrame([w EXCEPT !.timeController.isPlaying = TRUE]),
                  "playStateChange", TRUE)

\* TimeController.reset
reset(w, date) ==
    emitTime(setDate(pause(w), date), "reset", setDate(pause(w), date).timeController.currentDate)

\* TimeController.fastForward and fastBackward
fastForward(w, days) ==
    setDate(w, addHalfDays(w.timeController.currentDate, 2 * days))

fastBackward(w, days) ==
    setDate(w, addHalfDays(w.timeController.currentDate, -(2 * days)))

\* targetYear of jumpToEvent: year || this.currentDate.getFullYear(), where
\* null is written 0
targetYearOf(w, year) ==
    IF year # 0
    THEN Number(year)
    ELSE IF w.timeController.currentDate.kind = "number"
         THEN Number(getFullYear(w.timeController.currentDate))
         ELSE NaN

\* the cases of the switch: the month and the day of every event known
eventDays ==
    [spring_equinox |-> <<3, 20>>, summer_solstice |-> <<6, 21>>,
     autumn_equinox |-> <<9, 23>>, winter_solstice |-> <<12, 21>>]

\* TimeController.jumpToEvent
jumpToEvent(w, eventType, year) ==
    IF eventType \notin DOMAIN eventDays
    THEN w
    ELSE setDate(w, IF targetYearOf(w, year) = NaN
                    THEN NaN
                    ELSE dateOf(targetYearOf(w, year).val,
                                eventDays[eventType][1], eventDays[eventType][2]))

\* animate of startAnimation, timeDelta half-days after the last update
animate(w, timeDelta) ==
    IF ~w.timeController.isPlaying
    THEN w
    ELSE requestAnimationFrame(
             IF /\ dateAtMost(minDate, addHalfDays(w.timeController.currentDate, timeDelta))
                /\ dateAtMost(addHalfDays(w.timeController.currentDate, timeDelta), maxDate)
             THEN emitTime([w EXCEPT !.timeController.currentDate =
                                        addHalfDays(@, timeDelta)],
                           "dateChange",
                           addHalfDays(w.timeController.currentDate, timeDelta))
             ELSE emitTime(pause(w), "timeRangeExceeded",
                           addHalfDays(w.timeController.currentDate, timeDelta)))

\* the browser runs the animation frame callbacks: every handle pending when
\* the frame starts, in order, unless it was cancelled meanwhile; the first
\* callback that updates lastUpdateTime leaves no time to the later ones
RECURSIVE runAnimationFrame(_, _, _)
runAnimationFrame(w, handles, timeDelta) ==
    IF handles = <<>>
    THEN [w EXCEPT !.running = {}]
    ELSE IF Head(handles) \notin Range(w.frames)
         THEN runAnimationFrame(w, Tail(handles), timeDelta)
         ELSE runAnimationFrame(
                  animate([w EXCEPT !.frames = withoutHandle(@, Head(handles))],
                          timeDelta),
                  Tail(handles),
                  IF w.timeController.isPlaying THEN 0 ELSE timeDelta)

----------------------------------------------------------------------------
(* on, off and emit of the controllers *)

\* no emit yet
dispatchInit == [atStart |-> <<>>, invoked |-> <<>>, errors |-> 0]

\* off(event, callback): indexOf finds the first place of the callback and
\* splice(index, 1) takes it out; nothing happens if it is not registered
off(callbacks, callback) ==
    IF callback \notin Range(callbacks)
    THEN callbacks
    ELSE LET index == CHOOSE i \in DOMAIN callbacks :
                          /\ callbacks[i] = callback
                          /\ \A j \in 1..(i - 1) : callbacks[j] # callback
         IN  SubSeq(callbacks, 1, index - 1)
                 \o SubSeq(callbacks, index + 1, Len(callbacks))

\* what the callbacks do when they are called: return, throw, or remove
\* themselves or another callback with off()
callbackTable ==
    [log |-> [does |-> "returns", target |-> "none"],
     fail |-> [does |-> "throws", target |-> "none"],
     once |-> [does |-> "off", target |-> "once"],
     mute |-> [does |-> "off", target |-> "log"]]

\* callbacks.forEach(callback => { try { callback(data) } catch ... }): the
\* indexes 0 .. len - 1 of the length at the start are visited, an index is
\* skipped once the array has become shorter, the element called is the one
\* at the index at that moment, and what it throws is caught and logged
RECURSIVE forEach(_, _, _, _)
forEach(callbacks, k, len, d) ==
    IF k > len
    THEN [callbacks |-> callbacks, dispatch |-> d]
    ELSE IF k > Len(callbacks)
         THEN forEach(callbacks, k + 1, len, d)
         ELSE forEach(IF callbackTable[callbacks[k]].does = "off"
                      THEN off(callbacks, callbackTable[callbacks[k]].target)
                      ELSE callbacks,
                      k + 1, len,
                      [d EXCEPT !.invoked = Append(@, callbacks[k]),
                                !.errors = @ + (IF callbackTable[callbacks[k]].does = "throws"
                                                THEN 1 ELSE 0)])

InitCalculator ==
    /\ pc = "called"
    /\ ret = NoValue
    /\ E = 0
    /\ deltaE = 0
    /\ iterations = 0
    /\ positions = <<>>
    /\ todo = <<>>
    /\ observer = defaultObserver
    /\ skyGroup = [oriented |-> FALSE]
    /\ previous = NoValue
    /\ renderer = rendererInit
    /\ history = historyInit
    /\ listeners = <<>>
    /\ dispatch = dispatchInit

\* the controllers as their constructors leave them, the clock at the initial date
InitLocals ==
    /\ InitCalculator
    /\ timeController = timeControllerInit(initialDate)
    /\ frames = <<>>
    /\ uiController = uiControllerInit
    /\ app = appInit
    /\ trace = traceInit

\* the calculator after its constructor, and one call
Init ==
    /\ planetData = planetDataInit
    /\ call \in Calls
    /\ InitLocals

solveKeplerEquationEnter ==
    /\ pc = "called"
    /\ call.op = "solveKeplerEquation"
    /\ E' = degToRad(call.meanAnomaly)
    /\ deltaE' = One8
    /\ pc' = "kepler"
    /\ UNCHANGED <<previous, observer, skyGroup, planetData, call, ret, iterations, positions, todo>>
    /\ UNCHANGED appVars

solveKeplerEquationLoop ==
    /\ pc = "kepler"
    /\ keplerContinues(deltaE, call.tolerance)
    /\ iterations < MaxIterations
    /\ LET s == keplerBody(E, call.meanAnomaly, call.eccentricity)
       IN  /\ E' = s[1]
           /\ deltaE' = s[2]
    /\ iterations' = iterations + 1
    /\ UNCHANGED <<previous, observer, skyGroup, planetData, call, pc, ret, positions, todo>>
    /\ UNCHANGED appVars

solveKeplerEquationReturn ==
    /\ pc = "kepler"
    /\ ~keplerContinues(deltaE, call.tolerance)
    /\ ret' = [kind |-> "number", val |-> radToDeg(E)]
    /\ pc' = "returned"
    /\ UNCHANGED <<previous, observer, skyGroup, planetData, call, E, deltaE, iterations, positions, todo>>
    /\ UNCHANGED appVars

calculatePlanetPositionsEnter ==
    /\ pc = "called"
    /\ call.op = "calculatePlanetPositions"
    /\ positions' = <<>>
    /\ todo' = planetKeys
    /\ pc' = "positions"
    /\ UNCHANGED <<previous, observer, skyGroup, planetData, call, ret, E, deltaE, iterations>>
    /\ UNCHANGED appVars

\* the loop body that also stores the mean anomaly it computed in the table
calculatePlanetPositionsLoopAdvancing ==
    /\ pc = "positions"
    /\ todo # <<>>
    /\ planetData[Head(todo)] # Null
    /\ positions' = positions @@
           (Head(todo) :> calculatePlanetPosition(planetData[Head(todo)], call.date))
    /\ planetData' = [planetData EXCEPT ![Head(todo)].meanAnomalyAtEpoch =
                         positions'[Head(todo)].orbitInfo.meanAnomaly \div 100]
    /\ todo' = Tail(todo)
    /\ UNCHANGED <<previous, observer, skyGroup, call, pc, ret, E, deltaE, iterations>>
    /\ UNCHANGED appVars

\* positions[key] = this.calculatePlanetPosition(planetData, date); reading a
\* property of a null entry throws a TypeError, which nothing here catches
calculatePlanetPositionsLoop ==
    /\ pc = "positions"
    /\ todo # <<>>
    /\ LET key == Head(todo)
       IN  IF planetData[key] = Null
           THEN /\ pc' = "thrown"
                /\ ret' = [kind |-> "TypeError", key |-> key]
                /\ positions' = <<>>
                /\ todo' = <<>>
           ELSE /\ positions' = positions @@
                        (key :> calculatePlanetPosition(planetData[key], call.date))
                /\ todo' = Tail(todo)
                /\ UNCHANGED <<pc, ret>>
    /\ UNCHANGED <<previous, observer, skyGroup, planetData, call, E, deltaE, iterations>>
    /\ UNCHANGED appVars

calculatePlanetPositionsReturn ==
    /\ pc = "positions"
    /\ todo = <<>>
    /\ ret' = [kind |-> "positions", val |-> positions]
    /\ pc' = "returned"
    /\ UNCHANGED <<previous, observer, skyGroup, planetData, call, E, deltaE, iterations, positions, todo>>
    /\ UNCHANGED appVars

getConstellationFromCoordsCall ==
    /\ pc = "called"
    /\ call.op = "getConstellationFromCoords"
    /\ ret' = [kind |-> "string", val |-> getConstellationFromCoords(call.ra, call.dec)]
    /\ pc' = "returned"
    /\ UNCHANGED <<previous, observer, skyGroup, planetData, call, E, deltaE, iterations, positions, todo>>
    /\ UNCHANGED appVars

calculateApparentMagnitudeCall ==
    /\ pc = "called"
    /\ call.op = "calculateApparentMagnitude"
    /\ ret' = calculateApparentMagnitude(planetData[call.key],
                                         call.heliocentricDistance,
                                         call.geocentricDistance)
    /\ pc' = "returned"
    /\ UNCHANGED <<previous, observer, skyGroup, planetData, call, E, deltaE, iterations, positions, todo>>
    /\ UNCHANGED appVars

\* calculatePlanetPosition(this.planetData[key], date): reading a property of
\* undefined or null throws a TypeError; an invalid Date gives a record of NaN
calculatePlanetPositionCall ==
    /\ pc = "called"
    /\ call.op = "calculatePlanetPosition"
    /\ IF call.key \notin DOMAIN planetData
       THEN /\ pc' = "thrown"
            /\ ret' = [kind |-> "TypeError", key |-> call.key]
       ELSE IF planetData[call.key] = Null
       THEN /\ pc' = "thrown"
            /\ ret' = [kind |-> "TypeError", key |-> call.key]
       ELSE IF call.time = NaN
       THEN /\ pc' = "returned"
            /\ ret' = [kind |-> "NaN position",
                       val |-> calculatePlanetPositionNaN(planetData[call.key])]
       ELSE /\ pc' = "returned"
            /\ ret' = [kind |-> "position",
                       val |-> calculatePlanetPosition(planetData[call.key], call.time.val)]
    /\ UNCHANGED <<previous, observer, skyGroup, planetData, call, E, deltaE, iterations, positions, todo>>
    /\ UNCHANGED appVars

eclipticToEquatorialCall ==
    /\ pc = "called"
    /\ call.op = "eclipticToEquatorial"
    /\ ret' = [kind |-> "equatorial", val |-> eclipticToEquatorialAt(call.coords)]
    /\ pc' = "returned"
    /\ UNCHANGED <<previous, observer, skyGroup, planetData, call, E, deltaE, iterations, positions, todo>>
    /\ UNCHANGED appVars

computeLocalSiderealTimeRadiansCall ==
    /\ pc = "called"
    /\ call.op = "computeLocalSiderealTimeRadians"
    /\ ret' = Number(computeLocalSiderealTimeRadians(call.date, call.longitudeDeg))
    /\ pc' = "returned"
    /\ UNCHANGED <<previous, observer, skyGroup, planetData, call, E, deltaE, iterations, positions, todo>>
    /\ UNCHANGED appVars

raDecToCartesianCall ==
    /\ pc = "called"
    /\ call.op = "raDecToCartesian"
    /\ ret' = [kind |-> "vector",
               val |-> raDecToCartesian(call.ra, call.dec, call.distance)]
    /\ pc' = "returned"
    /\ UNCHANGED <<previous, observer, skyGroup, planetData, call, E, deltaE, iterations, positions, todo>>
    /\ UNCHANGED appVars

Next ==
    \/ calculatePlanetPositionCall
    \/ eclipticToEquatorialCall
    \/ computeLocalSiderealTimeRadiansCall
    \/ raDecToCartesianCall
    \/ solveKeplerEquationEnter
    \/ solveKeplerEquationLoop
    \/ solveKeplerEquationReturn
    \/ calculatePlanetPositionsEnter
    \/ calculatePlanetPositionsLoop
    \/ calculatePlanetPositionsReturn
    \/ getConstellationFromCoordsCall
    \/ calculateApparentMagnitudeCall

Spec == Init /\ [][Next]_vars

\* The element table is extensible (the method walks Object.entries of a public
\* field): a table in which one entry has been set to null, and one call of
\* calculatePlanetPositions.
InitExtensible ==
    /\ planetData \in {planetDataInit}
          \cup {[planetDataInit EXCEPT ![k] = Null] : k \in DOMAIN planetDataInit}
    /\ call \in PositionsCalls
    /\ InitLocals

NextPositions ==
    \/ calculatePlanetPositionsEnter
    \/ calculatePlanetPositionsLoop
    \/ calculatePlanetPositionsReturn

SpecExtensible == InitExtensible /\ [][NextPositions]_vars

\* One calculator queried again and again: after a query has ended the next
\* one starts, for any body and any instant, earlier or later than the last.
InitSession ==
    /\ planetData = planetDataInit
    /\ call \in PositionsCalls \cup PositionCalls
    /\ InitLocals

\* date.getTime() of a query
callTime(c) == IF c.op = "calculatePlanetPositions" THEN Number(c.date) ELSE c.time

nextQuery ==
    /\ pc \in {"returned", "thrown"}
    /\ call' \in PositionsCalls \cup PositionCalls
    /\ pc' = "called"
    /\ ret' = NoValue
    /\ positions' = <<>>
    /\ todo' = <<>>
    /\ previous' = callTime(call)
    /\ UNCHANGED <<observer, skyGroup, planetData, E, deltaE, iterations>>
    /\ UNCHANGED appVars

NextSession ==
    \/ calculatePlanetPositionsEnter
    \/ calculatePlanetPositionsLoop
    \/ calculatePlanetPositionsReturn
    \/ calculatePlanetPositionCall
    \/ nextQuery

SpecSession == InitSession /\ [][NextSession]_vars

\* The renderer: the observer is set and the sky is oriented, in any order.
InitSky ==
    /\ planetData = planetDataInit
    /\ call = [op |-> "none"]
    /\ InitLocals

setObserverLocation(latitudeDeg, longitudeDeg) ==
    /\ observer' = [latitudeDeg |-> latitudeDeg, longitudeDeg |-> longitudeDeg]
    /\ UNCHANGED <<previous, skyGroup, planetData, call, pc, ret, E, deltaE, iterations, positions, todo>>
    /\ UNCHANGED appVars

updateSkyOrientation(date) ==
    /\ skyGroup' = skyOrientation(date, zenithOf(observer, date))
    /\ UNCHANGED <<previous, observer, planetData, call, pc, ret, E, deltaE, iterations, positions, todo>>
    /\ UNCHANGED appVars

NextSky ==
    \/ \E o \in Observers : setObserverLocation(o.latitudeDeg, o.longitudeDeg)
    \/ \E d \in Instants : updateSkyOrientation(d)

SpecSky == InitSky /\ [][NextSky]_vars

\* The renderer's planets: the map is redrawn date after date, the focus is
\* changed and the sky is oriented, in any order.
frameInstant(n) == epochDate + n * FrameStep

\* the values of the focus menu: every planet, one planet, a body not in the table
FocusChoices == {"all", "mars", "pluto"}

\* calculator.calculatePlanetPositions(date) as updateStarMap passes it on
planetPositionsAt(date) ==
    [k \in DOMAIN planetData |-> calculatePlanetPosition(planetData[k], date)]

InitRenderer ==
    /\ planetData = planetDataInit
    /\ call = [op |-> "none"]
    /\ InitLocals

\* planetObjects is cleared, every planet the focus admits is projected onto
\* the sphere and its point is added to its trail
updatePlanetPositions(planetPositions) ==
    LET drawn == {k \in DOMAIN planetPositions : focusAdmits(renderer.focusPlanet, k)}
        proj == [k \in drawn |-> planetProjection(planetPositions[k].celestialCoords)]
        trails == [k \in drawn |->
                      pushTrailPoint(trailOf(renderer.orbitTrails, k), proj[k])]
    IN  /\ renderer' = [renderer EXCEPT
               !.planetObjects = proj,
               !.orbitTrails = trails @@ renderer.orbitTrails,
               !.trailLines = @ + Cardinality({k \in drawn :
                                     renderer.showOrbitTrails /\ Len(trails[k]) > 1})]
        /\ history' = [updates |-> history.updates + 1,
                       planetPositions |-> planetPositions,
                       inserted |-> [k \in DOMAIN history.inserted |->
                           IF renderer.focusPlanet = "all" \/ renderer.focusPlanet = k
                           THEN Append(history.inserted[k],
                                       planetProjection(planetPositions[k].celestialCoords))
                           ELSE history.inserted[k]]]
        /\ UNCHANGED <<coreVars, timeVars, emitVars>>

setFocusPlanet(planet) ==
    /\ renderer' = [renderer EXCEPT !.focusPlanet = planet]
    /\ UNCHANGED <<coreVars, history, timeVars, emitVars>>

NextRenderer ==
    \/ /\ history.updates < MaxUpdates
       /\ updatePlanetPositions(planetPositionsAt(frameInstant(history.updates + 1)))
    \/ \E planet \in FocusChoices :
          /\ history.updates >= FirstFocusChange
          /\ setFocusPlanet(planet)
    \/ /\ history.updates >= FirstFocusChange
       /\ updateSkyOrientation(frameInstant(history.updates))

SpecRenderer == InitRenderer /\ [][NextRenderer]_vars

\* The time controller alone: its methods are called and the browser runs
\* animation frames, in any order.

\* the controller, the pending frames and the application as one value that
\* the methods transform; events collects what the operation emits, running
\* the handles of the frame being run
world ==
    [timeController |-> timeController, frames |-> frames, app |-> app,
     events |-> <<>>, running |-> {}]

\* the fields after the operation, and the record of it
commit(w, op, date) ==
    /\ timeController' = w.timeController
    /\ frames' = w.frames
    /\ app' = w.app
    /\ trace' = [op |-> op, date |-> date, before |-> timeController.currentDate,
                 playing |-> timeController.isPlaying, events |-> w.events]

\* the dates the controller is constructed at (new Date())
StartDates == {minDate, initialDate, maxDate}

\* the dates given to setDate and reset: the ends of the range, the days next
\* to them, the initial date and an invalid Date
DateArguments ==
    {addHalfDays(minDate, -2), minDate, initialDate, maxDate,
     addHalfDays(maxDate, 2), NaN}

\* the arguments of jumpToEvent: every event and one that is none; no year
\* (null, written 0), and years at and beyond the ends of the range
EventTypes == DOMAIN eventDays \cup {"lunar_eclipse"}
JumpYears == {0, 1899, 2100, 2101}

\* the time a frame finds passed since the last update, times the speed, in
\* half-days: none (speed 0) or StepDays days
TimeDeltas == {0, 2 * StepDays}

InitTime ==
    /\ planetData = planetDataInit
    /\ call = [op |-> "none"]
    /\ InitCalculator
    /\ timeController \in {timeControllerInit(now) : now \in StartDates}
    /\ frames = <<>>
    /\ uiController = uiControllerInit
    /\ app = appInit
    /\ trace = traceInit

\* a method of the controller is called: nothing else changes
methodCall(w, op, date) ==
    /\ commit(w, op, date)
    /\ UNCHANGED <<coreVars, rendererVars, emitVars, uiController>>

\* the browser runs the pending frame callbacks
animationFrame(timeDelta) ==
    /\ frames # <<>>
    /\ commit(runAnimationFrame([world EXCEPT !.running = Range(frames)],
                                frames, timeDelta),
              "animationFrame",
              addHalfDays(timeController.currentDate, timeDelta))
    /\ UNCHANGED <<coreVars, rendererVars, emitVars, uiController>>

NextTime ==
    \/ \E date \in DateArguments : methodCall(setDate(world, date), "setDate", date)
    \/ methodCall(play(world), "play", NoValue)
    \/ methodCall(pause(world), "pause", NoValue)
    \/ \E date \in DateArguments : methodCall(reset(world, date), "reset", date)
    \/ methodCall(fastForward(world, StepDays), "fastForward",
                  addHalfDays(timeController.currentDate, 2 * StepDays))
    \/ methodCall(fastBackward(world, StepDays), "fastBackward",
                  addHalfDays(timeController.currentDate, -(2 * StepDays)))
    \/ \E eventType \in EventTypes, year \in JumpYears :
          methodCall(jumpToEvent(world, eventType, year), "jumpToEvent", NoValue)
    \/ \E timeDelta \in TimeDeltas : animationFrame(timeDelta)

SpecTime == InitTime /\ [][NextTime]_vars

\* The application: init() runs up to the loading of the constellations and
\* resumes when they are loaded; from the moment the controllers exist the
\* user clicks and types and the browser runs animation frames.
InitApp ==
    /\ planetData = planetDataInit
    /\ call = [op |-> "none"]
    /\ InitLocals

\* the values the date field is left with: a day, or nothing
DateInputs ==
    {dateOf(1899, 12, 31), initialDate, dateOf(2100, 12, 30), maxDate, NaN}

\* init() up to "await constellationData.load()": the controllers are made
\* and wired to one another
init(now) ==
    /\ app.phase = "constructed"
    /\ timeController' = timeControllerInit(now)
    /\ frames' = <<>>
    /\ uiController' = uiControllerInit
    /\ app' = [app EXCEPT !.phase = "loading"]
    /\ trace' = [traceInit EXCEPT !.op = "init"]
    /\ UNCHANGED <<coreVars, rendererVars, emitVars>>

\* init() from the loaded constellations to its end: setDate(initialDate),
\* updateStarMap(initialDate), and then this.isInitialized = true
initAfterLoad ==
    /\ app.phase = "loading"
    /\ timeController' = setDate(world, initialDate).timeController
    /\ frames' = frames
    /\ app' = [updateStarMap(setDate(world, initialDate), initialDate).app
                  EXCEPT !.isInitialized = TRUE, !.phase = "ready"]
    /\ trace' = [op |-> "initAfterLoad", date |-> initialDate,
                 before |-> timeController.currentDate,
                 playing |-> timeController.isPlaying,
                 events |-> setDate(world, initialDate).events]
    /\ UNCHANGED <<coreVars, rendererVars, emitVars, uiController>>

\* a click on the play/pause button
clickPlayPause ==
    /\ app.phase # "constructed"
    /\ uiController' = [uiController EXCEPT !.isPlaying = ~uiController.isPlaying]
    /\ commit(IF ~uiController.isPlaying THEN play(world) ELSE pause(world),
              "playPause", NoValue)
    /\ UNCHANGED <<coreVars, rendererVars, emitVars>>

\* a click on the reset button
clickReset ==
    /\ app.phase # "constructed"
    /\ uiController' = [uiController EXCEPT !.isPlaying = FALSE]
    /\ commit(pause(setDate(world, initialDate)), "reset", initialDate)
    /\ UNCHANGED <<coreVars, rendererVars, emitVars>>

\* the date field changes: new Date(value + 'T12:00:00') is noon of the day,
\* and an invalid Date if the field was cleared
changeDateInput(day) ==
    /\ app.phase # "constructed"
    /\ commit(setDate(world, addHalfDays(day, 1)), "dateChange", addHalfDays(day, 1))
    /\ UNCHANGED <<coreVars, rendererVars, emitVars, uiController>>

NextApp ==
    \/ \E now \in StartDates : init(now)
    \/ initAfterLoad
    \/ clickPlayPause
    \/ clickReset
    \/ \E day \in DateInputs : changeDateInput(day)
    \/ \E timeDelta \in TimeDeltas : animationFrame(timeDelta)

SpecApp == InitApp /\ [][NextApp]_vars

\* One event of a controller: callbacks are registered and removed, and the
\* event is emitted.
InitEmit ==
    /\ planetData = planetDataInit
    /\ call = [op |-> "none"]
    /\ InitLocals

\* on(event, callback)
on(callback) ==
    /\ Len(listeners) < MaxListeners
    /\ listeners' = Append(listeners, callback)
    /\ UNCHANGED <<coreVars, rendererVars, timeVars, dispatch>>

\* emit(event, data)
emit ==
    /\ listeners # <<>>
    /\ listeners' = forEach(listeners, 1, Len(listeners),
                            [dispatchInit EXCEPT !.atStart = listeners]).callbacks
    /\ dispatch' = forEach(listeners, 1, Len(listeners),
                           [dispatchInit EXCEPT !.atStart = listeners]).dispatch
    /\ UNCHANGED <<coreVars, rendererVars, timeVars>>

NextEmit ==
    \/ \E callback \in DOMAIN callbackTable : on(callback)
    \/ \E callback \in DOMAIN callbackTable :
          /\ listeners' = off(listeners, callback)
          /\ UNCHANGED <<coreVars, rendererVars, timeVars, dispatch>>
    \/ emit

SpecEmit == InitEmit /\ [][NextEmit]_vars

----------------------------------------------------------------------------
(* The claims *)

\* C1: for every body and every instant, also before the epoch, the mean
\* anomaly computed by calculatePlanetPosition, and Earth's in
\* calculateEarthPosition, lies in [0, 360).
C1_MeanAnomalyNormalized ==
    /\ \A k \in DOMAIN positions :
          /\ positions[k].orbitInfo.meanAnomaly >= 0
          /\ positions[k].orbitInfo.meanAnomaly < FullCircle
    /\ (call.op = "calculatePlanetPositions" /\ pc # "called") =>
          /\ earthMeanAnomalyAt(call.date) >= 0
          /\ earthMeanAnomalyAt(call.date) < FullCircle

\* C2: the right ascension stored in celestialCoords.ra lies in [0, 24) hours
\* for every geocentric vector, in every quadrant.
C2_RightAscensionInDay ==
    \A k \in DOMAIN positions :
        /\ positions[k].celestialCoords.ra >= 0
        /\ positions[k].celestialCoords.ra < FullDay

\* the iteration cap the specification names for the solver; the code has none
IterationCap == 10 * 10

\* C3: the Newton-Raphson loop of solveKeplerEquation runs at most IterationCap
\* iterations; past the cap the call fails instead of looping further.
C3_IterationCapRespected == iterations <= IterationCap

\* E - e sin E - M in 1e-8 radians, E and M in degrees 1e-6
KeplerResidual(eccentricAnomaly, eccentricity, meanAnomaly) ==
    degToRad(eccentricAnomaly)
        - Mul8(eccentricity, MathSin(degToRad(eccentricAnomaly)))
        - degToRad(meanAnomaly)

\* 1e-6 radians
ResidualBound == One8 \div 10 ^ 6

InKeplerDomain ==
    /\ call.op = "solveKeplerEquation"
    /\ call.tolerance = DefaultTolerance
    /\ call.eccentricity >= 0
    /\ call.eccentricity < 9 * 10 ^ 7
    /\ call.meanAnomaly >= 0
    /\ call.meanAnomaly < FullCircle

\* C4: for e in [0, 0.9) and M in [0, 360) the eccentric anomaly E returned by
\* solveKeplerEquation satisfies |E - e sin E - M| < 1e-6 radians.
C4_KeplerResidualSmall ==
    (pc = "returned" /\ InKeplerDomain) =>
        Abs(KeplerResidual(ret.val, call.eccentricity, call.meanAnomaly)) < ResidualBound

\* a call with e = 0.8 and M = 45 degrees has returned after several iterations
C4_Witness ==
    /\ pc = "returned"
    /\ InKeplerDomain
    /\ call.eccentricity = 8 * 10 ^ 7
    /\ call.meanAnomaly = 45 * One6
    /\ iterations >= 4

\* C5: at the epoch 2000-01-01T12:00:00 UTC the mean anomaly reported in
\* orbitInfo equals the body's tabulated meanAnomalyAtEpoch, for each body.
C5_EpochMeanAnomaly ==
    (call.op = "calculatePlanetPositions" /\ call.date = epochDate) =>
        \A k \in DOMAIN positions :
            positions[k].orbitInfo.meanAnomaly = planetData[k].meanAnomalyAtEpoch * 100

\* the call for the epoch has returned all five bodies, mercury at 174.8 degrees
C5_Witness ==
    /\ pc = "returned"
    /\ call.op = "calculatePlanetPositions"
    /\ call.date = epochDate
    /\ DOMAIN ret.val = DOMAIN planetDataInit
    /\ ret.val.mercury.orbitInfo.meanAnomaly = 174800000

\* the i-th box contains the point, both bounds of both intervals included
BoxContains(i, ra, dec) ==
    /\ constellationBounds[i].raStart * One6 <= ra
    /\ ra <= constellationBounds[i].raEnd * One6
    /\ constellationBounds[i].decMin * One6 <= dec
    /\ dec <= constellationBounds[i].decMax * One6

ContainingBoxes(ra, dec) ==
    {i \in 1..Len(constellationBounds) : BoxContains(i, ra, dec)}

FirstOf(S) == CHOOSE i \in S : \A j \in S : i <= j

LookupReturned == pc = "returned" /\ call.op = "getConstellationFromCoords"

\* C6: getConstellationFromCoords returns the name of the first box in table
\* order that contains the point; a point in two boxes gets the earlier one.
C6_FirstBoxWins ==
    (LookupReturned /\ ContainingBoxes(call.ra, call.dec) # {}) =>
        ret.val = constellationBounds[FirstOf(ContainingBoxes(call.ra, call.dec))].name

\* ra = 2 h, dec = 10 degrees lies in the first two boxes and got the first name
C6_Witness ==
    /\ LookupReturned
    /\ call.ra = 2 * One6
    /\ call.dec = 10 * One6
    /\ ContainingBoxes(call.ra, call.dec) = {1, 2}
    /\ ret.val = "Shuangyu"

\* C7: getConstellationFromCoords returns the unknown sentinel if and only if
\* no box of the table contains the point.
C7_UnknownIffNoBox ==
    LookupReturned =>
        (ret.val = unknownConstellation <=> ContainingBoxes(call.ra, call.dec) = {})

\* ra = 3 h, dec = -10 degrees lies in no box and got the sentinel
C7_Witness ==
    /\ LookupReturned
    /\ call.ra = 3 * One6
    /\ call.dec = -10 * One6
    /\ ContainingBoxes(call.ra, call.dec) = {}
    /\ ret.val = unknownConstellation

\* C8: the magnitude of each body in the result is that body's own tabulated
\* base magnitude plus 5 log10(heliocentric distance * geocentric distance).
C8_OwnBaseMagnitude ==
    \A k \in DOMAIN positions :
        positions[k].magnitude =
            [kind |-> "number",
             val |-> baseMagnitudes[k]
                       + distanceEffect(positions[k].orbitInfo.heliocentricDistance,
                                        positions[k].celestialCoords.distance).val]

\* C9: calculateApparentMagnitude fails with a NumericalError whenever one of
\* the distances is zero or negative; it returns no value for such input.
C9_NonPositiveDistanceFails ==
    (/\ call.op = "calculateApparentMagnitude"
     /\ \/ call.heliocentricDistance <= 0
        \/ call.geocentricDistance <= 0
     /\ pc # "called")
        => (pc = "thrown" /\ ret.kind = "NumericalError")

\* C10: when one body's computation fails, calculatePlanetPositions still
\* returns the result of every other body and an error entry for that body.
C10_FailureIsolated ==
    (call.op = "calculatePlanetPositions" /\ pc \in {"returned", "thrown"}) =>
        /\ pc = "returned"
        /\ \A k \in DOMAIN planetData :
              /\ k \in DOMAIN ret.val
              /\ IF planetData[k] = Null
                 THEN ret.val[k] = [error |-> "TypeError"]
                 ELSE ret.val[k] = calculatePlanetPosition(planetData[k], call.date)

\* C11: a position query for a body without orbital elements, or for an
\* invalid Date (getTime() is NaN), fails with an InvalidInput error and
\* returns no result record.
C11_InvalidInputFails ==
    (/\ call.op = "calculatePlanetPosition"
     /\ pc # "called"
     /\ \/ call.key \notin DOMAIN planetDataInit
        \/ call.time = NaN)
        => (pc = "thrown" /\ ret.kind = "InvalidInput")

\* C12: for every instant calculatePlanetPositions returns a mapping whose keys
\* are exactly mercury, venus, mars, jupiter and saturn, each with the result
\* record of that body of the table.
C12_AllBodiesReturned ==
    (pc = "returned" /\ call.op = "calculatePlanetPositions") =>
        /\ DOMAIN ret.val = {"mercury", "venus", "mars", "jupiter", "saturn"}
        /\ \A k \in DOMAIN ret.val : ret.val[k].name = planetDataInit[k].name

\* the call for the earliest instant has returned five records, saturn's last
C12_Witness ==
    /\ pc = "returned"
    /\ call.op = "calculatePlanetPositions"
    /\ call.date = epochDate - MaxInstantIndex * InstantStep
    /\ Cardinality(DOMAIN ret.val) = 5
    /\ ret.val.saturn.name = "Tuxing"

\* C13: the queries leave planetData as the constructor made it, and in any
\* sequence of queries, forward or backward in time, each result equals the
\* result a fresh calculator gives for that instant.
C13_QueriesLeaveStateUnchanged ==
    /\ planetData = planetDataInit
    /\ (pc = "returned" /\ call.op = "calculatePlanetPositions") =>
          ret.val = [k \in DOMAIN planetDataInit |->
                        calculatePlanetPosition(planetDataInit[k], call.date)]
    /\ (pc = "returned" /\ call.op = "calculatePlanetPosition" /\ call.time # NaN) =>
          ret.val = calculatePlanetPosition(planetDataInit[call.key], call.time.val)

\* a query for an instant before the epoch has returned, after a query for a
\* later instant
C13_Witness ==
    /\ pc = "returned"
    /\ call.op = "calculatePlanetPositions"
    /\ call.date < epochDate
    /\ previous.kind = "number"
    /\ previous.val > epochDate
    /\ ret.val.mars.orbitInfo.meanAnomaly < 0

\* C14: for every date, also before J2000.0 where GMST % 360 is negative, and
\* every longitude in [-180, 180], computeLocalSiderealTimeRadians returns an
\* angle in [0, 360) degrees, that is in [0, 2 pi) radians.
C14_SiderealTimeInCircle ==
    (pc = "returned" /\ call.op = "computeLocalSiderealTimeRadians") =>
        /\ ret.val >= 0
        /\ ret.val < degToRad(FullCircle)
        /\ radToDeg(ret.val) < FullCircle

\* a call for an instant before J2000.0 with negative GMST % 360 and a western
\* longitude has returned
C14_Witness ==
    /\ pc = "returned"
    /\ call.op = "computeLocalSiderealTimeRadians"
    /\ call.date < epochDate
    /\ gmstModulo(toJulianDate(call.date)) < 0
    /\ gmstModulo(toJulianDate(call.date)) + call.longitudeDeg < -FullCircle
    /\ ret.val > 0

\* the difference allowed between an angle and its conversion to radians and
\* back: 1e-5 degrees
AngleTolerance == One6 \div 10 ^ 5

\* C15: the zenith that updateSkyOrientation uses has the local sidereal time
\* at the observer's current longitude as right ascension and the observer's
\* current latitude as declination; the observer is the one last given to
\* setObserverLocation, or Guangzhou.
C15_ZenithFollowsObserver ==
    [][skyGroup' # skyGroup =>
          /\ skyGroup'.zenithDecDeg = observer.latitudeDeg
          /\ Abs(skyGroup'.zenithRaDeg
                   - localSiderealTime(skyGroup'.date, observer.longitudeDeg))
                <= AngleTolerance]_vars

\* the sky has been oriented for Sydney, set after the default, at an instant
\* before the epoch
C15_Witness ==
    /\ skyGroup.oriented
    /\ skyGroup.date < epochDate
    /\ observer = [latitudeDeg |-> -33868800, longitudeDeg |-> 151209300]
    /\ skyGroup.zenithDecDeg = -33868800
    /\ skyGroup.zenithVec.y < 0

\* 2000-01-01T12:00:00 UTC, 946728000 seconds after the Unix epoch, in half-days
J2000Instant == (946728 * 1000) \div 43200

\* C16: at J2000.0 toJulianDate gives JD 2451545.0, T is 0, and the sidereal
\* time at longitude 0 is the reference GMST 280.46061837 degrees within 0.01
\* degree.
C16_J2000Reference ==
    (/\ pc = "returned"
     /\ call.op = "computeLocalSiderealTimeRadians"
     /\ call.date = J2000Instant
     /\ call.longitudeDeg = 0) =>
        /\ toJulianDate(call.date) = 2 * 2451545
        /\ julianCenturies(toJulianDate(call.date)) = 0
        /\ Abs(radToDeg(ret.val) - 280460618) <= One6 \div 100

\* the call for J2000.0 at longitude 0 has returned 4.89496 radians
C16_Witness ==
    /\ pc = "returned"
    /\ call.op = "computeLocalSiderealTimeRadians"
    /\ call.date = J2000Instant
    /\ call.longitudeDeg = 0
    /\ ret.val > 489496000
    /\ ret.val < 489497000

\* the inverse of the projection with y as polar axis: dec = asin(y / r) and
\* ra = atan2(z, x) brought into [0, 2 pi), both in degrees 1e-6
inverseDec(v, r) == radToDeg(MathAsin(Div8(v.y, r)))
inverseRa(v) ==
    radToDeg(IF MathAtan2(v.z, v.x) < 0
             THEN MathAtan2(v.z, v.x) + 2 * Pi8
             ELSE MathAtan2(v.z, v.x))

\* the difference allowed after the round trip: 1e-3 degrees, the resolution
\* of a unit vector with components in 1e-6 units near the poles
RoundTripTolerance == One6 \div 1000

\* C17: projecting (ra, dec, r) with raDecToCartesian and inverting with
\* dec = asin(y / r), ra = atan2(z, x) recovers ra and dec, for ra in [0, 24)
\* hours and dec in (-90, 90) degrees.
C17_ProjectionRoundTrip ==
    (/\ pc = "returned"
     /\ call.op = "raDecToCartesian"
     /\ call.ra >= 0
     /\ call.ra < 15 * FullDay
     /\ call.dec > -90 * One6
     /\ call.dec < 90 * One6) =>
        /\ Abs(inverseDec(ret.val, call.distance) - call.dec) <= RoundTripTolerance
        /\ Abs(Quot(inverseRa(ret.val), 15) - Quot(call.ra, 15)) <= RoundTripTolerance

\* ra = 17.5 h, dec = -85 degrees on the sphere of radius 1002 has been
\* projected below the x-z plane
C17_Witness ==
    /\ pc = "returned"
    /\ call.op = "raDecToCartesian"
    /\ call.ra = 15 * 17 * One6 + 15 * (One6 \div 2)
    /\ call.dec = -85 * One6
    /\ call.distance = 1002 * One6
    /\ ret.val.y < 0
    /\ ret.val.z < 0

\* C18: the true anomaly and the eccentric anomaly stored in orbitInfo lie in
\* [0, 360) degrees, for every eccentric anomaly the solver produces.
C18_AnomaliesNormalized ==
    \A k \in DOMAIN positions :
        /\ positions[k].orbitInfo.eccentricAnomaly >= 0
        /\ positions[k].orbitInfo.eccentricAnomaly < FullCircle
        /\ positions[k].orbitInfo.trueAnomaly >= 0
        /\ positions[k].orbitInfo.trueAnomaly < FullCircle

\* C19: eclipticToEquatorial fails with a NumericalError for the vector of
\* length zero (x = y = z = 0); it returns no right ascension and declination.
C19_ZeroVectorFails ==
    (/\ call.op = "eclipticToEquatorial"
     /\ call.coords = [x |-> 0, y |-> 0, z |-> 0]
     /\ pc # "called")
        => (pc = "thrown" /\ ret.kind = "NumericalError")

\* C20: in every result, position / 50 is the body's heliocentric ecliptic
\* vector minus Earth's heliocentric vector at the same instant, component by
\* component; Earth's z is 0, so the geocentric z is the body's ecliptic z.
C20_GeocentricIsDifference ==
    \A k \in DOMAIN positions :
        /\ positions[k].position.x =
              50 * (eclipticCoordsOf(planetData[k], positions[k].orbitInfo).x
                      - calculateEarthPosition(call.date).x)
        /\ positions[k].position.y =
              50 * (eclipticCoordsOf(planetData[k], positions[k].orbitInfo).y
                      - calculateEarthPosition(call.date).y)
        /\ positions[k].position.z =
              50 * eclipticCoordsOf(planetData[k], positions[k].orbitInfo).z
        /\ calculateEarthPosition(call.date).z = 0

\* mercury's record at the epoch: Earth is off the origin in x and y, and
\* mercury is above the ecliptic plane
C20_Witness ==
    /\ pc = "returned"
    /\ call.op = "calculatePlanetPositions"
    /\ call.date = epochDate
    /\ calculateEarthPosition(call.date).x # 0
    /\ calculateEarthPosition(call.date).y # 0
    /\ ret.val.mercury.position.z # 0
    /\ ret.val.mercury.position.z =
          50 * eclipticCoordsOf(planetData.mercury, ret.val.mercury.orbitInfo).z

\* Earth's eccentric anomaly at an instant, in degrees 1e-6
earthEccentricAnomalyAt(date) == solveKeplerEquation(earthMeanAnomalyAt(date), 1700000)

\* a * (1 - e * cos E) for a = 1 AU and e = 0.017, in AU 1e-6
earthOrbitRadius(eccentricAnomaly) ==
    Mul8(One6, One8 - Mul8(1700000, MathCos(degToRad(eccentricAnomaly))))

\* 1e-4 AU
DistanceTolerance == One6 \div 10 ^ 4

\* C21: Earth's heliocentric distance at each instant is a (1 - e cos E) with
\* a = 1 AU, e = 0.017 and E the eccentric anomaly solved for that instant, so
\* it varies between 0.983 and 1.017 AU.
C21_EarthOrbitEccentric ==
    (call.op = "calculatePlanetPositions" /\ pc # "called") =>
        Abs(Norm6(calculateEarthPosition(call.date).x,
                  calculateEarthPosition(call.date).y,
                  calculateEarthPosition(call.date).z)
              - earthOrbitRadius(earthEccentricAnomalyAt(call.date)))
            <= DistanceTolerance

\* C22: the table of constellation bounds that the lookup scans has exactly 12
\* boxes and at least one of them wraps past RA = 0 (raStart > raEnd), so that a point just below
\* 24 h and a point just above 0 h can match the same box.
C22_SomeBoxWraps ==
    call.op = "getConstellationFromCoords" =>
    /\ Len(constellationBounds) = 12
    /\ \E i \in 1..Len(constellationBounds) :
          /\ constellationBounds[i].raStart > constellationBounds[i].raEnd
          /\ \E d \in DecGrid :
                /\ constellationMatches(constellationBounds[i], FullDay - One6 \div 2, d)
                /\ constellationMatches(constellationBounds[i], One6 \div 2, d)

\* C30: getConstellationFromCoords returns the unknown sentinel for every
\* right ascension below 0 or above 24 hours, whatever the declination; a
\* body whose right ascension is negative gets no constellation.
C30_OutsideDayIsUnknown ==
    /\ (LookupReturned /\ (call.ra < 0 \/ call.ra > FullDay)) =>
          ret.val = unknownConstellation
    /\ \A k \in DOMAIN positions :
          positions[k].celestialCoords.ra < 0 =>
              positions[k].constellation = unknownConstellation

\* the lookup of ra = -3 h, dec = 0, a point that a box from 23 h to 2 h would
\* hold, has returned the sentinel
C30_Witness ==
    /\ LookupReturned
    /\ call.ra = -3 * One6
    /\ call.dec = 0
    /\ ret.val = unknownConstellation


\* the angle between two directions given in degrees 1e-6, along the shorter arc
CircularDistance(a, b) ==
    IF Abs(a - b) % FullCircle > FullCircle \div 2
    THEN FullCircle - (Abs(a - b) % FullCircle)
    ELSE Abs(a - b) % FullCircle

\* C23: every point handed to raDecToCartesian is in degrees: a planet drawn by
\* updatePlanetPositions lies where 15 times its right ascension in hours and
\* its declination point, and the zenith of updateSkyOrientation lies where
\* the local sidereal time in degrees and the observer's latitude point; the
\* inverse of the projection gives these angles back.
C23_ProjectionTakesDegrees ==
    /\ \A k \in DOMAIN renderer.planetObjects :
          /\ Abs(inverseDec(renderer.planetObjects[k], celestialSphereRadius + 2 * One6)
                   - history.planetPositions[k].celestialCoords.dec)
                <= RoundTripTolerance
          /\ CircularDistance(inverseRa(renderer.planetObjects[k]),
                 wrap360(15 * history.planetPositions[k].celestialCoords.ra))
                <= RoundTripTolerance
    /\ skyGroup.oriented =>
          /\ Abs(radToDeg(MathAsin(skyGroup.zenithVec.y)) - observer.latitudeDeg)
                <= RoundTripTolerance
          /\ CircularDistance(inverseRa(skyGroup.zenithVec),
                 localSiderealTime(skyGroup.date, observer.longitudeDeg))
                <= RoundTripTolerance

\* a planet whose right ascension is negative hours and a planet more than an
\* hour east of the origin have been drawn, and the sky has been oriented
C23_Witness ==
    /\ skyGroup.oriented
    /\ \E k \in DOMAIN renderer.planetObjects :
          /\ history.planetPositions[k].celestialCoords.ra < 0
          /\ renderer.planetObjects[k].z < 0
    /\ \E k \in DOMAIN renderer.planetObjects :
          history.planetPositions[k].celestialCoords.ra > One6

\* the last n elements of a sequence, all of them if it has fewer
LastPoints(seq, n) ==
    IF Len(seq) <= n THEN seq ELSE SubSeq(seq, Len(seq) - n + 1, Len(seq))

\* C29: after any calls of updatePlanetPositions and setFocusPlanet, every
\* planet's trail has at most 100 points, and they are the last 100 (or all)
\* of the points of the calls whose focus admitted the planet, oldest first.
C29_TrailKeepsLatest ==
    \A k \in DOMAIN history.inserted :
        /\ Len(trailOf(renderer.orbitTrails, k)) <= 100
        /\ trailOf(renderer.orbitTrails, k) = LastPoints(history.inserted[k], 100)

\* Mars was in focus for more than 100 calls and lost its oldest points, while
\* Venus was skipped in some of them
C29_Witness ==
    /\ Len(history.inserted.mars) > 100
    /\ Len(renderer.orbitTrails.mars) = 100
    /\ renderer.orbitTrails.mars[1] # history.inserted.mars[1]
    /\ Len(history.inserted.venus) < Len(history.inserted.mars)
    /\ renderer.orbitTrails.venus = history.inserted.venus


\* C24: when init() has run to its end, the star map of the initial date
\* 2024-01-01 has been drawn: the step that sets isInitialized leaves the
\* planets of that date calculated, drawn and listed.
C24_InitDrawsStarMap ==
    [][(~app.isInitialized /\ app'.isInitialized) =>
          app'.starMapDate = effectiveDate(initialDate)]_vars

\* a valid date of the range 1900-01-01 .. 2100-12-31
InRange(date) == dateAtMost(minDate, date) /\ dateAtMost(date, maxDate)

\* C25: the controller starts in the range and currentDate stays in it after
\* any calls of setDate, fastForward, fastBackward, jumpToEvent, reset and any
\* animation frames; a setDate with a date that is not in the range changes
\* nothing and emits no dateChange; a frame that would leave the range while
\* playing leaves the date, pauses and emits timeRangeExceeded.
C25_DateStaysInRange ==
    /\ InRange(timeController.currentDate)
    /\ (trace.op = "setDate" /\ ~InRange(trace.date)) =>
          /\ timeController.currentDate = trace.before
          /\ "dateChange" \notin Range(trace.events)
    /\ (trace.op = "animationFrame" /\ trace.playing /\ ~InRange(trace.date)) =>
          /\ timeController.currentDate = trace.before
          /\ ~timeController.isPlaying
          /\ "timeRangeExceeded" \in Range(trace.events)

\* C26: whatever the order of play(), pause(), setDate() and animation
\* frames, at most one frame callback is pending, and while isPlaying is false
\* animationId is null and no callback is pending.
C26_OneFramePending ==
    /\ Len(frames) <= 1
    /\ ~timeController.isPlaying =>
          /\ timeController.animationId = Null
          /\ frames = <<>>

\* C27: once the controllers exist, after any clicks on play/pause and reset,
\* changes of the date field and animation frames, UIController.isPlaying
\* equals TimeController.isPlaying.
C27_PlayStateAgrees ==
    app.phase # "constructed" =>
        uiController.isPlaying = timeController.isPlaying

\* C28: an emit has invoked the callbacks that were registered when it
\* started, each once and in the order of registration, whatever the
\* callbacks did (returned, threw, removed themselves or another).
C28_EveryListenerInvoked ==
    dispatch.invoked = dispatch.atStart

====
